---- MODULE Spec2Model ----
(***************************************************************************)
(* Hackathon judge app (src/app.py): judges save per-criterion scores for  *)
(* teams into scores.json; the leaderboard averages and ranks them.        *)
(*                                                                         *)
(* Python floats are IEEE-754 doubles.  A double is modelled exactly as a  *)
(* natural number counted in units of 2^-FracBits, written as a sequence   *)
(* of limbs in base 2^LimbBits, least significant limb first, without      *)
(* leading zero limbs (zero is <<>>).  Every arithmetic step of the code   *)
(* is the exact result rounded to 53 significant bits, ties to even.       *)
(* The representation is exact for zero and for values from 2^-22 up to    *)
(* the limb capacity, which covers every average, percentage and mean of   *)
(* the explored configurations.                                            *)
(***************************************************************************)
EXTENDS Integers, Sequences, FiniteSets, TLC

LimbBits == 15
Base == 2 ^ LimbBits
FracLimbs == 5
FracBits == FracLimbs * LimbBits
Precision == 53

Zero == << >>

RECURSIVE Norm(_)
Norm(a) ==
    IF a = << >> THEN << >>
    ELSE IF a[Len(a)] = 0 THEN Norm(SubSeq(a, 1, Len(a) - 1))
    ELSE a

RECURSIVE Zeros(_)
Zeros(w) == IF w = 0 THEN << >> ELSE <<0>> \o Zeros(w - 1)

\* int -> float conversion (exact for the small integers of this program)
FromInt(c) == IF c = 0 THEN Zero ELSE Norm(Zeros(FracLimbs) \o <<c % Base, c \div Base>>)

RECURSIVE MulCarry(_, _, _)
MulCarry(a, k, carry) ==
    IF a = << >> THEN (IF carry = 0 THEN << >> ELSE <<carry % Base>> \o MulCarry(<< >>, k, carry \div Base))
    ELSE LET t == a[1] * k + carry
         IN  <<t % Base>> \o MulCarry(Tail(a), k, t \div Base)

MulSmall(a, k) == Norm(MulCarry(a, k, 0))

RECURSIVE AddCarry(_, _, _)
AddCarry(a, b, carry) ==
    IF a = << >> /\ b = << >> THEN (IF carry = 0 THEN << >> ELSE <<carry>>)
    ELSE LET x == IF a = << >> THEN 0 ELSE a[1]
             y == IF b = << >> THEN 0 ELSE b[1]
             t == x + y + carry
         IN  <<t % Base>> \o AddCarry(IF a = << >> THEN a ELSE Tail(a),
                                      IF b = << >> THEN b ELSE Tail(b),
                                      t \div Base)

AddBig(a, b) == Norm(AddCarry(a, b, 0))

\* long division by a small positive integer, most significant limb first
RECURSIVE DivRem(_, _, _)
DivRem(a, n, i) ==
    IF i > Len(a) THEN [q |-> << >>, r |-> 0]
    ELSE LET hi == DivRem(a, n, i + 1)
             t  == hi.r * Base + a[i]
         IN  [q |-> <<t \div n>> \o hi.q, r |-> t % n]

DivSmall(a, n) == LET d == DivRem(a, n, 1) IN [q |-> Norm(d.q), r |-> d.r]

RECURSIVE IntBits(_)
IntBits(x) == IF x = 0 THEN 0 ELSE 1 + IntBits(x \div 2)

BitLen(a) == IF a = << >> THEN 0 ELSE (Len(a) - 1) * LimbBits + IntBits(a[Len(a)])

RECURSIVE AllZero(_)
AllZero(a) == a = << >> \/ (a[1] = 0 /\ AllZero(Tail(a)))

\* a * 2^d
ShiftLeft(a, d) ==
    IF a = << >> THEN << >>
    ELSE Zeros(d \div LimbBits) \o MulSmall(a, 2 ^ (d % LimbBits))

\* floor(a / 2^d) and whether a nonzero bit was dropped
ShiftRight(a, d) ==
    LET w    == d \div LimbBits
        low  == SubSeq(a, 1, IF w < Len(a) THEN w ELSE Len(a))
        rest == IF w < Len(a) THEN SubSeq(a, w + 1, Len(a)) ELSE << >>
        dv   == DivSmall(rest, 2 ^ (d % LimbBits))
    IN  [q |-> dv.q, lost |-> (dv.r # 0) \/ ~AllZero(low)]

IsOdd(a) == a # << >> /\ a[1] % 2 = 1

\* round-to-nearest, ties-to-even, to Precision significant bits;
\* sticky says the exact value lies strictly above a
Round53(a, sticky) ==
    LET L == BitLen(a)
    IN  IF L <= Precision THEN a
        ELSE LET d    == L - Precision
                 t    == ShiftRight(a, d - 1)
                 half == IsOdd(t.q)
                 q    == DivSmall(t.q, 2).q
                 up   == half /\ (t.lost \/ sticky \/ IsOdd(q))
             IN  ShiftLeft(IF up THEN AddBig(q, <<1>>) ELSE q, d)

\* float * int, float + int, float + float, float / int
FMulInt(x, k) == Round53(MulSmall(x, k), FALSE)
FAdd(x, y) == Round53(AddBig(x, y), FALSE)
FAddInt(x, c) == FAdd(x, FromInt(c))
FDivInt(x, n) == LET d == DivSmall(x, n) IN Round53(d.q, d.r # 0)

RECURSIVE CmpFrom(_, _, _)
CmpFrom(a, b, i) ==
    IF i = 0 THEN 0
    ELSE IF a[i] < b[i] THEN -1
    ELSE IF a[i] > b[i] THEN 1
    ELSE CmpFrom(a, b, i - 1)

\* -1, 0, 1 as a < b, a = b, a > b
Cmp(a, b) ==
    IF Len(a) < Len(b) THEN -1
    ELSE IF Len(a) > Len(b) THEN 1
    ELSE CmpFrom(a, b, Len(a))


(***************************************************************************)
(* Python dicts keep insertion order: a dict is a sequence of [k, v]       *)
(* records with distinct keys.                                             *)
(***************************************************************************)
RECURSIVE Find(_, _, _)
Find(d, key, i) ==
    IF i > Len(d) THEN 0
    ELSE IF d[i].k = key THEN i
    ELSE Find(d, key, i + 1)

Has(d, key) == Find(d, key, 1) # 0
Get(d, key) == d[Find(d, key, 1)].v
Put(d, key, val) ==
    LET i == Find(d, key, 1)
    IN  IF i = 0 THEN Append(d, [k |-> key, v |-> val])
        ELSE [d EXCEPT ![i] = [k |-> key, v |-> val]]
Keys(d) == {d[i].k : i \in 1..Len(d)}
Values(d) == [i \in 1..Len(d) |-> d[i].v]
Range(seq) == {seq[i] : i \in 1..Len(seq)}

RECURSIVE SumSeq(_)
SumSeq(seq) == IF seq = << >> THEN 0 ELSE Head(seq) + SumSeq(Tail(seq))

(***************************************************************************)
(* Bounds and the configurations config.yaml takes in the explored runs.   *)
(***************************************************************************)
MaxJudgesMean == 8
MeanScores == {2, 5}

APP_PASSCODE == "hackathon2025"
Passcodes == {APP_PASSCODE, "guess"}

Criterion(name, max_score) == [name |-> name, max_score |-> max_score]
Category(name, criteria) == [name |-> name, criteria |-> criteria]

CfgA == [teams |-> <<"c", "b_c">>,
         judges |-> <<"a_b", "a">>,
         categories |-> <<Category("Tech", <<Criterion("x", 1)>>),
                          Category("Art", << >>)>>]
CfgB == [teams |-> <<"b_c">>,
         judges |-> <<"a_b", "a">>,
         categories |-> <<Category("Tech", <<Criterion("x", 1)>>),
                          Category("New", <<Criterion("y", 0)>>),
                          Category("Demo", << >>)>>]
CfgRace == [teams |-> <<"t">>,
            judges |-> <<"j1", "j2">>,
            categories |-> <<Category("Tech", <<Criterion("x", 1)>>)>>]
MeanJudges == <<"j1", "j2", "j3", "j4", "j5", "j6", "j7", "j8", "j9">>
CfgMean == [teams |-> <<"t", "u">>,
            judges |-> MeanJudges,
            categories |-> <<Category("Tech", <<Criterion("x", 5)>>)>>]
\* a later edit of config.yaml drops two teams and lowers the maximum of "x"
CfgWide == [teams |-> <<"t", "u", "v">>,
            judges |-> <<"j1">>,
            categories |-> <<Category("Tech", <<Criterion("x", 2)>>)>>]
CfgNarrow == [teams |-> <<"t">>,
              judges |-> <<"j1">>,
              categories |-> <<Category("Tech", <<Criterion("x", 1)>>)>>]
Configs == {CfgA, CfgB}
ReloadConfigs == {CfgWide, CfgNarrow}

Sessions == {1, 2}

(***************************************************************************)
(* calculate_all_team_scores.  A result is [exc, scores]: exc names the    *)
(* exception a Python run would raise ("none" when it returns).            *)
(***************************************************************************)
NoExc == "none"

AllCategories(cfg) == [i \in 1..Len(cfg.categories) |-> cfg.categories[i].name]

ZeroStat == [avg_score |-> Zero, total_possible |-> 0,
             percentage |-> Zero, judges_count |-> 0]

RECURSIVE InitCategories(_, _)
InitCategories(all_categories, i) ==
    IF i = 0 THEN << >>
    ELSE Put(InitCategories(all_categories, i - 1), all_categories[i], ZeroStat)

\* variant: the loop over all_teams starts one team late
RECURSIVE InitStructure_SkipsFirstTeam(_, _, _)
InitStructure_SkipsFirstTeam(all_teams, all_categories, i) ==
    IF i <= 1 THEN << >>
    ELSE Put(InitStructure_SkipsFirstTeam(all_teams, all_categories, i - 1), all_teams[i],
             InitCategories(all_categories, Len(all_categories)))

RECURSIVE InitStructure(_, _, _)
InitStructure(all_teams, all_categories, i) ==
    IF i = 0 THEN << >>
    ELSE Put(InitStructure(all_teams, all_categories, i - 1), all_teams[i],
             InitCategories(all_categories, Len(all_categories)))

RECURSIVE CriteriaMax(_, _)
CriteriaMax(criteria, i) ==
    IF i = 0 THEN 0 ELSE CriteriaMax(criteria, i - 1) + criteria[i].max_score

RECURSIVE CategoryMaxUpTo(_, _, _)
CategoryMaxUpTo(cfg, category, i) ==
    IF i = 0 THEN 0
    ELSE CategoryMaxUpTo(cfg, category, i - 1)
         + (IF cfg.categories[i].name = category
            THEN CriteriaMax(cfg.categories[i].criteria, Len(cfg.categories[i].criteria))
            ELSE 0)

CategoryMax(cfg, category) == CategoryMaxUpTo(cfg, category, Len(cfg.categories))

CategoryScore(criteria_scores) == SumSeq(Values(criteria_scores))

\* variant: the membership test is missing
TeamConfigured_Always(team_category_scores, team) == TRUE

TeamConfigured(team_category_scores, team) == Has(team_category_scores, team)

CategoryConfigured(team_categories, category) == Has(team_categories, category)

\* variant: the guard lets a maximum of zero through
MaxIsPositive_AdmitsZero(category_max) == category_max >= 0

MaxIsPositive(category_max) == category_max > 0

\* variant: the old average is weighted by the new count
RunningAverage_WeightsByNewCount(current_avg, judges_count, category_score) ==
    FDivInt(FAddInt(FMulInt(current_avg, judges_count), category_score), judges_count)

RunningAverage(current_avg, judges_count, category_score) ==
    FDivInt(FAddInt(FMulInt(current_avg, judges_count - 1), category_score), judges_count)

\* new_avg / category_max raises ZeroDivisionError for a zero divisor; the
\* loop in ScoreCategories records it, and no quotient is formed here
UpdateStat(current, category_score, category_max) ==
    LET judges_count == current.judges_count + 1
        new_avg == RunningAverage(current.avg_score, judges_count, category_score)
    IN  [avg_score |-> new_avg,
         total_possible |-> category_max,
         percentage |-> IF MaxIsPositive(category_max) /\ category_max # 0
                        THEN FMulInt(FDivInt(new_avg, category_max), 100)
                        ELSE Zero,
         judges_count |-> judges_count]

\* the loop over data["scores"].items() for one submission;
\* team_category_scores[team] raises KeyError for a missing team
RECURSIVE ScoreCategories(_, _, _, _, _)
ScoreCategories(acc, cfg, team, scores, i) ==
    IF i > Len(scores) \/ acc.exc # NoExc THEN acc
    ELSE LET category == scores[i].k
             criteria_scores == scores[i].v
         IN  IF ~Has(acc.scores, team)
             THEN [acc EXCEPT !.exc = "KeyError"]
             ELSE IF ~CategoryConfigured(Get(acc.scores, team), category)
             THEN ScoreCategories(acc, cfg, team, scores, i + 1)
             ELSE LET category_max == CategoryMax(cfg, category)
                      category_score == CategoryScore(criteria_scores)
                      current == Get(Get(acc.scores, team), category)
                  IN  IF MaxIsPositive(category_max) /\ category_max = 0
                      THEN [acc EXCEPT !.exc = "ZeroDivisionError"]
                      ELSE ScoreCategories(
                               [acc EXCEPT !.scores =
                                   Put(acc.scores, team,
                                       Put(Get(acc.scores, team), category,
                                           UpdateStat(current, category_score, category_max)))],
                               cfg, team, scores, i + 1)

\* the loop over scores_data["scores"].items()
RECURSIVE ScoreSubmissions(_, _, _, _)
ScoreSubmissions(acc, cfg, store, i) ==
    IF i > Len(store) \/ acc.exc # NoExc THEN acc
    ELSE LET data == store[i].v
         IN  IF ~TeamConfigured(acc.scores, data.team)
             THEN ScoreSubmissions(acc, cfg, store, i + 1)
             ELSE ScoreSubmissions(ScoreCategories(acc, cfg, data.team, data.scores, 1),
                                   cfg, store, i + 1)

calculate_all_team_scores(store, cfg) ==
    LET all_categories == AllCategories(cfg)
        team_category_scores == InitStructure(cfg.teams, all_categories, Len(cfg.teams))
        start == [exc |-> NoExc, scores |-> team_category_scores]
    IN  IF store = << >> THEN start
        ELSE ScoreSubmissions(start, cfg, store, 1)

(***************************************************************************)
(* list.sort(key=lambda x: x[1], reverse=True): stable, descending.        *)
(***************************************************************************)
\* position of e in a descending list: after every element whose key is >= e's
\* variant: an element is placed before the elements equal to it
RECURSIVE InsertAt_BeforeEqual(_, _, _)
InsertAt_BeforeEqual(sorted, e, i) ==
    IF i > Len(sorted) THEN i
    ELSE IF Cmp(sorted[i][2], e[2]) <= 0 THEN i
    ELSE InsertAt_BeforeEqual(sorted, e, i + 1)

RECURSIVE InsertAt(_, _, _)
InsertAt(sorted, e, i) ==
    IF i > Len(sorted) THEN i
    ELSE IF Cmp(sorted[i][2], e[2]) < 0 THEN i
    ELSE InsertAt(sorted, e, i + 1)

InsertDesc(sorted, e) ==
    LET i == InsertAt(sorted, e, 1)
    IN  SubSeq(sorted, 1, i - 1) \o <<e>> \o SubSeq(sorted, i, Len(sorted))

RECURSIVE SortDesc(_, _)
SortDesc(list, i) ==
    IF i = 0 THEN << >> ELSE InsertDesc(SortDesc(list, i - 1), list[i])

(***************************************************************************)
(* get_category_winners                                                    *)
(***************************************************************************)
\* variant: the test admits a count of zero
Judged_AdmitsZero(stat) == stat.judges_count >= 0

Judged(stat) == stat.judges_count > 0

RECURSIVE CategoryResults(_, _, _)
CategoryResults(team_scores, category, i) ==
    IF i = 0 THEN << >>
    ELSE LET team == team_scores[i].k
             categories == team_scores[i].v
             before == CategoryResults(team_scores, category, i - 1)
         IN  IF Has(categories, category) /\ Judged(Get(categories, category))
             THEN Append(before, <<team, Get(categories, category).percentage>>)
             ELSE before

RECURSIVE CategoryWinners(_, _, _)
CategoryWinners(team_scores, all_categories, i) ==
    IF i = 0 THEN << >>
    ELSE LET category_results == CategoryResults(team_scores, all_categories[i], Len(team_scores))
         IN  Put(CategoryWinners(team_scores, all_categories, i - 1), all_categories[i],
                 SortDesc(category_results, Len(category_results)))

get_category_winners(team_scores, cfg) ==
    CategoryWinners(team_scores, AllCategories(cfg), Len(cfg.categories))

(***************************************************************************)
(* view_leaderboard: overall standings                                     *)
(***************************************************************************)
\* the inner loop: [total_score, total_categories] over categories.items()
\* variant: every category is counted, judged or not
RECURSIVE TeamTotals_CountsAll(_, _)
TeamTotals_CountsAll(categories, i) ==
    IF i = 0 THEN [total_score |-> Zero, total_categories |-> 0]
    ELSE LET before == TeamTotals_CountsAll(categories, i - 1)
             data == categories[i].v
         IN  [total_score |-> FAdd(before.total_score, data.percentage),
              total_categories |-> before.total_categories + 1]

RECURSIVE TeamTotals(_, _)
TeamTotals(categories, i) ==
    IF i = 0 THEN [total_score |-> Zero, total_categories |-> 0]
    ELSE LET before == TeamTotals(categories, i - 1)
             data == categories[i].v
         IN  IF Judged(data)
             THEN [total_score |-> FAdd(before.total_score, data.percentage),
                   total_categories |-> before.total_categories + 1]
             ELSE before

RECURSIVE OverallScores(_, _)
OverallScores(team_scores, i) ==
    IF i = 0 THEN << >>
    ELSE LET before == OverallScores(team_scores, i - 1)
             totals == TeamTotals(team_scores[i].v, Len(team_scores[i].v))
         IN  IF totals.total_categories > 0
             THEN Append(before, <<team_scores[i].k,
                                   FDivInt(totals.total_score, totals.total_categories),
                                   totals.total_categories>>)
             ELSE before

overall_standings(team_scores) ==
    LET overall_scores == OverallScores(team_scores, Len(team_scores))
    IN  SortDesc(overall_scores, Len(overall_scores))

\* what the caller's scores_data and the global config hold when
\* calculate_all_team_scores returns: the function assigns only to
\* team_category_scores and to the stat dicts it created itself
\* variant: the loop consumes the submissions it iterates over
ArgsAfterCall_DrainsStore(store, cfg) == [scores_data |-> << >>, config |-> cfg]

ArgsAfterCall(store, cfg) == [scores_data |-> store, config |-> cfg]

(***************************************************************************)
(* view_leaderboard: the "Judging Progress" metrics                        *)
(***************************************************************************)
\* set(data["team"] for data in scores_data["scores"].values())
\* variant: one element per submission instead of one per team name
JudgedTeamNames_PerSubmission(store) ==
    {<<store[i].v.judge, store[i].v.team>> : i \in 1..Len(store)}

JudgedTeamNames(store) == {store[i].v.team : i \in 1..Len(store)}

\* set(data["judge"] for data in scores_data["scores"].values())
JudgeNames(store) == {store[i].v.judge : i \in 1..Len(store)}

\* the percentages the loops over team_scores.values() and
\* team_data.values() add to avg_score, in iteration order
RECURSIVE CategoryPercentages(_, _)
CategoryPercentages(team_data, i) ==
    IF i = 0 THEN << >>
    ELSE LET before == CategoryPercentages(team_data, i - 1)
             cat_data == team_data[i].v
         IN  IF Judged(cat_data) THEN Append(before, cat_data.percentage) ELSE before

RECURSIVE ScoredPercentages(_, _)
ScoredPercentages(team_scores, i) ==
    IF i = 0 THEN << >>
    ELSE ScoredPercentages(team_scores, i - 1)
           \o CategoryPercentages(team_scores[i].v, Len(team_scores[i].v))

RECURSIVE AddAll(_, _)
AddAll(percentages, i) ==
    IF i = 0 THEN Zero ELSE FAdd(AddAll(percentages, i - 1), percentages[i])

AverageScore(team_scores) ==
    LET percentages == ScoredPercentages(team_scores, Len(team_scores))
        score_count == Len(percentages)
        avg_score == AddAll(percentages, score_count)
    IN  IF score_count > 0 THEN FDivInt(avg_score, score_count) ELSE avg_score

NoProgress == [total_teams |-> 0, judged_teams |-> 0, total_scores |-> 0,
               judges_participated |-> 0, total_judges |-> 0, avg_score |-> Zero]

Progress(store, cfg, team_scores) ==
    [total_teams |-> Len(cfg.teams),
     judged_teams |-> Cardinality(JudgedTeamNames(store)),
     total_scores |-> Len(store),
     judges_participated |-> Cardinality(JudgeNames(store)),
     total_judges |-> Len(cfg.judges),
     avg_score |-> AverageScore(team_scores)]

NoBoard == [shown |-> FALSE, exc |-> NoExc, team_scores |-> << >>,
            category_winners |-> << >>, progress |-> NoProgress,
            overall_scores |-> << >>]

Leaderboard(store, cfg) ==
    IF store = << >> THEN NoBoard
    ELSE LET result == calculate_all_team_scores(store, cfg)
         IN  IF result.exc # NoExc
             THEN [NoBoard EXCEPT !.exc = result.exc]
             ELSE [shown |-> TRUE, exc |-> NoExc,
                   team_scores |-> result.scores,
                   category_winners |-> get_category_winners(result.scores, cfg),
                   progress |-> Progress(store, cfg, result.scores),
                   overall_scores |-> overall_standings(result.scores)]

(***************************************************************************)
(* The application: one Streamlit script run per user interaction.  The    *)
(* variables config, scores_data and board are locals of a session's       *)
(* script run and exist only while it executes.  A stored submission also  *)
(* carries notes and a timestamp, which no computation reads; they are     *)
(* left out.                                                               *)
(***************************************************************************)
VARIABLES
    config_yaml,    \* contents of config.yaml
    cache,          \* st.cache_data entry of load_config: << >> or <<cfg>>
    scores_json,    \* the "scores" dict of scores.json (<< >> while the file is missing)
    authenticated,  \* st.session_state.authenticated, per session
    pc,             \* per session: "idle", "main" (in main() after the load),
                    \* "leaderboard" (in view_leaderboard, standings computed)
    config,         \* the module global config of the session's run
    scores_data,    \* the scores dict the session's run loaded
    board,          \* what view_leaderboard computed in the session's run
    last_saved,     \* history: pair -> << >> or <<scores of its latest "Save Scores">>
    current_team_index  \* st.session_state.current_team_index, per session

vars == <<config_yaml, cache, scores_json, authenticated, pc, config,
          scores_data, board, last_saved, current_team_index>>

NoConfig == [teams |-> << >>, judges |-> << >>, categories |-> << >>]

load_config == IF cache = << >> THEN config_yaml ELSE cache[1]

JudgeKey(judge, team) == judge \o "_" \o team

\* the form: one slider value per criterion of every configured category
RECURSIVE CriteriaForms(_, _)
CriteriaForms(criteria, i) ==
    IF i = 0 THEN {<< >>}
    ELSE {Put(category_scores, criteria[i].name, score) :
            category_scores \in CriteriaForms(criteria, i - 1),
            score \in 0..criteria[i].max_score}

RECURSIVE TeamForms(_, _)
TeamForms(categories, i) ==
    IF i = 0 THEN {<< >>}
    ELSE {Put(team_scores, categories[i].name, category_scores) :
            team_scores \in TeamForms(categories, i - 1),
            category_scores \in CriteriaForms(categories[i].criteria,
                                              Len(categories[i].criteria))}

Forms(cfg) == TeamForms(cfg.categories, Len(cfg.categories))

Submission(judge, team, team_scores) ==
    [judge |-> judge, team |-> team, scores |-> team_scores]

AllConfigs == {CfgA, CfgB, CfgRace, CfgMean, CfgWide, CfgNarrow}
Pairs == UNION {Range(cfg.judges) \X Range(cfg.teams) : cfg \in AllConfigs}

\* the script run of session s returns: its locals are gone
EndRun(s) ==
    /\ pc' = [pc EXCEPT ![s] = "idle"]
    /\ config' = [config EXCEPT ![s] = NoConfig]
    /\ scores_data' = [scores_data EXCEPT ![s] = << >>]
    /\ board' = [board EXCEPT ![s] = NoBoard]

\* show_login_screen: the run of a "Login" click with a typed passcode
Login(s, passcode) ==
    /\ pc[s] = "idle"
    /\ ~authenticated[s]
    /\ cache' = <<load_config>>
    /\ authenticated' = [authenticated EXCEPT ![s] = (passcode = APP_PASSCODE)]
    /\ UNCHANGED <<config_yaml, scores_json, pc, config, scores_data, board, last_saved, current_team_index>>

\* config = load_config(), then main() up to the page dispatch:
\* scores_data = initialize_or_load_scores()
Load(s) ==
    /\ pc[s] = "idle"
    /\ authenticated[s]
    /\ config' = [config EXCEPT ![s] = load_config]
    /\ cache' = <<load_config>>
    /\ scores_data' = [scores_data EXCEPT ![s] = scores_json]
    /\ pc' = [pc EXCEPT ![s] = "main"]
    /\ UNCHANGED <<config_yaml, scores_json, authenticated, board, last_saved, current_team_index>>

\* the "Reload Configuration" button: load_config.clear(); st.rerun()
ReloadConfiguration(s) ==
    /\ pc[s] = "main"
    /\ cache' = << >>
    /\ EndRun(s)
    /\ UNCHANGED <<config_yaml, scores_json, authenticated, last_saved, current_team_index>>

Min(a, b) == IF a < b THEN a ELSE b
Max(a, b) == IF a > b THEN a ELSE b

\* team_index = max(0, min(team_index, len(teams) - 1))
\* variant: the stored index is used as it is
Clamp_KeepsStored(team_index, teams) == team_index

Clamp(team_index, teams) == Max(0, Min(team_index, Len(teams) - 1))

\* judge_teams up to team = teams[team_index], the dropdown returning
\* selected_index: st.selectbox raises for an index that is no position of
\* its options, and the run stops there
PickTeam(s, selected_index) ==
    LET teams == config[s].teams
        team_index == Clamp(current_team_index[s], teams)
    IN  IF team_index \notin 0..(Len(teams) - 1)
        THEN [exc |-> "StreamlitAPIException", team_index |-> team_index,
              current_team_index |-> current_team_index[s]]
        ELSE IF selected_index # team_index
        THEN [exc |-> NoExc, team_index |-> selected_index,
              current_team_index |-> selected_index]
        ELSE [exc |-> NoExc, team_index |-> team_index,
              current_team_index |-> current_team_index[s]]

\* judge_teams rendered without a button pressed: the page was opened or
\* the dropdown was changed
JudgeTeams(s, selected_index) ==
    /\ pc[s] = "main"
    /\ selected_index \in 0..(Len(config[s].teams) - 1)
    /\ current_team_index' =
          [current_team_index EXCEPT ![s] = PickTeam(s, selected_index).current_team_index]
    /\ EndRun(s)
    /\ UNCHANGED <<config_yaml, cache, scores_json, authenticated, last_saved>>

\* a "Previous Team" button (top or bottom) pressed: the index is stored and
\* st.rerun() ends the run
PreviousTeam(s, selected_index) ==
    /\ pc[s] = "main"
    /\ selected_index \in 0..(Len(config[s].teams) - 1)
    /\ LET picked == PickTeam(s, selected_index)
       IN  /\ picked.exc = NoExc
           /\ picked.team_index > 0
           /\ current_team_index' =
                 [current_team_index EXCEPT ![s] = picked.team_index - 1]
    /\ EndRun(s)
    /\ UNCHANGED <<config_yaml, cache, scores_json, authenticated, last_saved>>

\* a "Next Team" button (top or bottom) pressed
NextTeam(s, selected_index) ==
    /\ pc[s] = "main"
    /\ selected_index \in 0..(Len(config[s].teams) - 1)
    /\ LET picked == PickTeam(s, selected_index)
       IN  /\ picked.exc = NoExc
           /\ picked.team_index < Len(config[s].teams) - 1
           /\ current_team_index' =
                 [current_team_index EXCEPT ![s] = picked.team_index + 1]
    /\ EndRun(s)
    /\ UNCHANGED <<config_yaml, cache, scores_json, authenticated, last_saved>>

\* judge_teams with the "Save Scores" button pressed
SaveScores(s, judge, selected_index, team_scores) ==
    /\ pc[s] = "main"
    /\ judge \in Range(config[s].judges)
    /\ selected_index \in 0..(Len(config[s].teams) - 1)
    /\ team_scores \in Forms(config[s])
    /\ PickTeam(s, selected_index).exc = NoExc
    /\ current_team_index' =
          [current_team_index EXCEPT ![s] = PickTeam(s, selected_index).current_team_index]
    /\ LET team == config[s].teams[PickTeam(s, selected_index).team_index + 1]
           judge_key == JudgeKey(judge, team)
           saved == Put(scores_data[s], judge_key, Submission(judge, team, team_scores))
       IN  /\ scores_json' = saved
           /\ last_saved' = [last_saved EXCEPT ![<<judge, team>>] = <<team_scores>>]
    /\ EndRun(s)
    /\ UNCHANGED <<config_yaml, cache, authenticated>>

ViewScores(s) ==
    /\ pc[s] = "main"
    /\ EndRun(s)
    /\ UNCHANGED <<config_yaml, cache, scores_json, authenticated, last_saved, current_team_index>>

\* view_leaderboard up to the sorted overall standings
ViewLeaderboard(s) ==
    /\ pc[s] = "main"
    /\ board' = [board EXCEPT ![s] = Leaderboard(scores_data[s], config[s])]
    /\ LET after == IF scores_data[s] = << >>
                     THEN [scores_data |-> scores_data[s], config |-> config[s]]
                     ELSE ArgsAfterCall(scores_data[s], config[s])
       IN  /\ scores_data' = [scores_data EXCEPT ![s] = after.scores_data]
           /\ config' = [config EXCEPT ![s] = after.config]
    /\ pc' = [pc EXCEPT ![s] = "leaderboard"]
    /\ UNCHANGED <<config_yaml, cache, scores_json, authenticated, last_saved, current_team_index>>

\* view_leaderboard renders its tables and returns
ShowLeaderboard(s) ==
    /\ pc[s] = "leaderboard"
    /\ EndRun(s)
    /\ UNCHANGED <<config_yaml, cache, scores_json, authenticated, last_saved, current_team_index>>

\* config.yaml is edited on disk between runs
EditConfig(cfg) ==
    /\ cfg # config_yaml
    /\ config_yaml' = cfg
    /\ UNCHANGED <<cache, scores_json, authenticated, pc, config, scores_data, board, last_saved, current_team_index>>

Start(cfg) ==
    /\ config_yaml = cfg
    /\ cache = << >>
    /\ scores_json = << >>
    /\ authenticated = [s \in Sessions |-> FALSE]
    /\ pc = [s \in Sessions |-> "idle"]
    /\ config = [s \in Sessions |-> NoConfig]
    /\ scores_data = [s \in Sessions |-> << >>]
    /\ board = [s \in Sessions |-> NoBoard]
    /\ last_saved = [p \in Pairs |-> << >>]
    /\ current_team_index = [s \in Sessions |-> 0]

Run(s) ==
    \/ \E passcode \in Passcodes : Login(s, passcode)
    \/ Load(s)
    \/ ReloadConfiguration(s)
    \/ \E selected_index \in 0..(Len(config[s].teams) - 1) : JudgeTeams(s, selected_index)
    \/ \E judge \in Range(config[s].judges), selected_index \in 0..(Len(config[s].teams) - 1),
          team_scores \in Forms(config[s]) :
            SaveScores(s, judge, selected_index, team_scores)
    \/ ViewScores(s)
    \/ ViewLeaderboard(s)
    \/ ShowLeaderboard(s)

\* the navigation buttons of judge_teams
Navigate(s) ==
    \E selected_index \in 0..(Len(config[s].teams) - 1) :
       \/ PreviousTeam(s, selected_index)
       \/ NextTeam(s, selected_index)

\* two judges' browser sessions against one scores.json; with the single
\* team of CfgRace no navigation button is offered
Init == Start(CfgRace)
Next == \E s \in Sessions : Run(s)
Spec == Init /\ [][Next]_vars

\* one session; config.yaml is edited and reloaded between saves
InitOne == Start(CfgA)
NextOne == Run(1) \/ Navigate(1) \/ \E cfg \in Configs : EditConfig(cfg)
SpecOne == InitOne /\ [][NextOne]_vars

\* one session; an edit of config.yaml changes the number of teams and the
\* maximum of a criterion between saves
InitReload == Start(CfgWide)
NextReload == Run(1) \/ Navigate(1) \/ \E cfg \in ReloadConfigs : EditConfig(cfg)
SpecReload == InitReload /\ [][NextReload]_vars

\* one session reads a store in which the first n judges have each saved
\* scores for team "t"
MeanForms == {form \in Forms(CfgMean) : CategoryScore(Get(form, "Tech")) \in MeanScores}

RECURSIVE MeanStoresOf(_)
MeanStoresOf(n) ==
    IF n = 0 THEN {<< >>}
    ELSE {Put(store, JudgeKey(MeanJudges[n], "t"), Submission(MeanJudges[n], "t", form)) :
            store \in MeanStoresOf(n - 1), form \in MeanForms}

MeanStores == UNION {MeanStoresOf(n) : n \in 0..MaxJudgesMean}

InitMean ==
    /\ config_yaml = CfgMean
    /\ cache = << >>
    /\ scores_json \in MeanStores
    /\ authenticated = [s \in Sessions |-> s = 1]
    /\ pc = [s \in Sessions |-> "idle"]
    /\ config = [s \in Sessions |-> NoConfig]
    /\ scores_data = [s \in Sessions |-> << >>]
    /\ board = [s \in Sessions |-> NoBoard]
    /\ last_saved = [p \in Pairs |->
                       IF Has(scores_json, JudgeKey(p[1], p[2]))
                       THEN <<Get(scores_json, JudgeKey(p[1], p[2])).scores>>
                       ELSE << >>]
    /\ current_team_index = [s \in Sessions |-> 0]
NextMean == Load(1) \/ ViewLeaderboard(1) \/ ShowLeaderboard(1)
SpecMean == InitMean /\ [][NextMean]_vars

(***************************************************************************)
(* Properties                                                              *)
(***************************************************************************)
\* the sessions whose run has computed the leaderboard statistics
Computed == {s \in Sessions : pc[s] = "leaderboard" /\ board[s].shown}

\* the submissions of a store that score category for team, in store order
RECURSIVE Contributions(_, _, _, _)
Contributions(store, team, category, i) ==
    IF i = 0 THEN << >>
    ELSE LET data == store[i].v
             before == Contributions(store, team, category, i - 1)
         IN  IF data.team = team /\ Has(data.scores, category)
             THEN Append(before, CategoryScore(Get(data.scores, category)))
             ELSE before

CategorySums(store, team, category) == Contributions(store, team, category, Len(store))

CoversConfig(team_scores, cfg) ==
    /\ Keys(team_scores) = Range(cfg.teams)
    /\ \A team \in Keys(team_scores) :
         Keys(Get(team_scores, team)) = Range(AllCategories(cfg))

Stat(team_scores, team, category) == Get(Get(team_scores, team), category)

\* C1: calculate_all_team_scores returns an entry for every (configured team,
\* configured category) pair and for no other team, also for the empty store;
\* a pair no submission contributes to has avg_score, total_possible,
\* percentage and judges_count all 0.
C1_EveryPairHasEntry ==
    /\ \A s \in Sessions : pc[s] # "idle" =>
         LET empty == calculate_all_team_scores(<< >>, config[s])
         IN  /\ empty.exc = NoExc
             /\ CoversConfig(empty.scores, config[s])
             /\ \A team \in Range(config[s].teams), category \in Range(AllCategories(config[s])) :
                  Stat(empty.scores, team, category) = ZeroStat
    /\ \A s \in Computed :
         /\ CoversConfig(board[s].team_scores, config[s])
         /\ \A team \in Range(config[s].teams), category \in Range(AllCategories(config[s])) :
              CategorySums(scores_data[s], team, category) = << >>
                => Stat(board[s].team_scores, team, category) = ZeroStat

C1_Witness ==
    \E s \in Computed :
       \E team \in Range(config[s].teams), other \in Range(config[s].teams),
          category \in Range(AllCategories(config[s])) :
            /\ CategorySums(scores_data[s], team, category) = << >>
            /\ CategorySums(scores_data[s], other, category) # << >>

RECURSIVE MaxSeq(_)
MaxSeq(seq) ==
    IF seq = << >> THEN 0
    ELSE LET rest == MaxSeq(Tail(seq)) IN IF Head(seq) > rest THEN Head(seq) ELSE rest

\* k * 2^-53
Ulps(k) == ShiftLeft(Norm(<<k % Base, k \div Base>>), FracBits - Precision)

\* |a - b| <= tol
Within(a, b, tol) == Cmp(a, AddBig(b, tol)) <= 0 /\ Cmp(b, AddBig(a, tol)) <= 0

\* C2 as claimed: with category sums s1..sn (n >= 1) for (T, C), judges_count = n
\* and avg_score is the float quotient (s1 + ... + sn) / n, hence the same
\* whatever the order of the submissions in the store.
C2_ExactMeanAnyOrder ==
    \A s \in Computed :
       \A team \in Range(config[s].teams), category \in Range(AllCategories(config[s])) :
          LET sums == CategorySums(scores_data[s], team, category)
              stat == Stat(board[s].team_scores, team, category)
          IN  sums # << >> =>
                /\ stat.judges_count = Len(sums)
                /\ stat.avg_score = FDivInt(FromInt(SumSeq(sums)), Len(sums))

\* C2 amended: judges_count = n, and avg_score is (s1 + ... + sn) / n up to the
\* rounding of the running mean: |avg_score - sum/n| <= 2 (n+1) max(si) 2^-53.
C2_MeanWithinRounding ==
    \A s \in Computed :
       \A team \in Range(config[s].teams), category \in Range(AllCategories(config[s])) :
          LET sums == CategorySums(scores_data[s], team, category)
              n    == Len(sums)
              stat == Stat(board[s].team_scores, team, category)
          IN  sums # << >> =>
                /\ stat.judges_count = n
                /\ Within(MulSmall(stat.avg_score, n), FromInt(SumSeq(sums)),
                          Ulps(n * 2 * (n + 1) * MaxSeq(sums)))

C2_Witness ==
    \E s \in Computed :
       \E team \in Range(config[s].teams), category \in Range(AllCategories(config[s])) :
          LET sums == CategorySums(scores_data[s], team, category)
          IN  Len(sums) >= 3 /\ Range(sums) = MeanScores

\* the entries of a store whose submission is of the pair (judge, team)
PairEntries(store, pair) ==
    {i \in 1..Len(store) : store[i].v.judge = pair[1] /\ store[i].v.team = pair[2]}

\* C3: after any sequence of "Save Scores" actions scores.json holds at most one
\* submission per (judge, team) pair, and it is the one most recently saved
\* for the pair, so a judge who re-saves a team is counted once with the
\* second set of values.
C3_HoldsLatestSave ==
    \A pair \in Pairs :
       /\ Cardinality(PairEntries(scores_json, pair)) <= 1
       /\ \A i \in PairEntries(scores_json, pair) :
            last_saved[pair] = <<scores_json[i].v.scores>>

\* C4: two distinct (judge, team) pairs never share a store key, so a
\* "Save Scores" of one pair leaves every other pair's stored submission
\* as it was.
C4_SaveLeavesOtherPairs ==
    [][\A s \in Sessions :
         \A judge \in Range(config[s].judges), selected_index \in 0..(Len(config[s].teams) - 1),
            team_scores \in Forms(config[s]) :
              SaveScores(s, judge, selected_index, team_scores) =>
                \A i \in 1..Len(scores_json) :
                   <<scores_json[i].v.judge, scores_json[i].v.team>>
                       # <<judge, config[s].teams[selected_index + 1]>>
                     => /\ Has(scores_json', scores_json[i].k)
                        /\ Get(scores_json', scores_json[i].k) = scores_json[i].v]_vars

\* C5: a submission written to scores.json is never deleted by the scoring
\* action: the pair stays present after every later save of any session.
C5_SavedStaysPresent ==
    [][\A pair \in Pairs :
         PairEntries(scores_json, pair) # {} => PairEntries(scores_json', pair) # {}]_vars

Teams(list) == {list[i][1] : i \in 1..Len(list)}

JudgedTeams(team_scores, category) ==
    {team \in Keys(team_scores) : Stat(team_scores, team, category).judges_count > 0}

\* C6: the ranking of every configured category holds exactly the teams whose
\* stat in the category has judges_count > 0, each once; it is empty when
\* there is no such team.
C6_RankingHoldsJudgedTeams ==
    \A s \in Computed :
       \A category \in Range(AllCategories(config[s])) :
          /\ Has(board[s].category_winners, category)
          /\ LET ranking == Get(board[s].category_winners, category)
                 judged == JudgedTeams(board[s].team_scores, category)
             IN  /\ Teams(ranking) = judged
                 /\ Len(ranking) = Cardinality(judged)

C6_Witness ==
    \E s \in Computed :
       /\ \E category \in Range(AllCategories(config[s])) :
            Get(board[s].category_winners, category) = << >>
       /\ \E category \in Range(AllCategories(config[s])) :
            LET ranking == Get(board[s].category_winners, category)
            IN  ranking # << >> /\ Teams(ranking) # Range(config[s].teams)

Position(list, x) == CHOOSE i \in 1..Len(list) : list[i] = x

\* C7: every category ranking is ordered by non-increasing percentage, and
\* teams of equal percentage keep the order of the configured team list.
C7_RankingDescendingStable ==
    \A s \in Computed :
       \A category \in Range(AllCategories(config[s])) :
          LET ranking == Get(board[s].category_winners, category)
          IN  \A i \in 1..Len(ranking), j \in 1..Len(ranking) :
                 i < j =>
                   /\ Cmp(ranking[i][2], ranking[j][2]) >= 0
                   /\ ranking[i][2] = ranking[j][2] =>
                        Position(config[s].teams, ranking[i][1])
                          < Position(config[s].teams, ranking[j][1])

C7_Witness ==
    \E s \in Computed :
       /\ \E category \in Range(AllCategories(config[s])) :
            LET ranking == Get(board[s].category_winners, category)
            IN  Len(ranking) = 2 /\ ranking[1][2] = ranking[2][2]
       /\ \E category \in Range(AllCategories(config[s])) :
            LET ranking == Get(board[s].category_winners, category)
            IN  /\ Len(ranking) = 2
                /\ Cmp(ranking[1][2], ranking[2][2]) > 0
                /\ Position(config[s].teams, ranking[1][1])
                     > Position(config[s].teams, ranking[2][1])

\* the percentages of a team's judged categories, in configuration order
RECURSIVE JudgedPercentages(_, _, _, _)
JudgedPercentages(team_scores, team, all_categories, i) ==
    IF i > Len(all_categories) THEN << >>
    ELSE LET stat == Stat(team_scores, team, all_categories[i])
             rest == JudgedPercentages(team_scores, team, all_categories, i + 1)
         IN  IF stat.judges_count > 0 THEN <<stat.percentage>> \o rest ELSE rest

RECURSIVE FloatSum(_)
FloatSum(seq) ==
    IF seq = << >> THEN Zero
    ELSE FAdd(FloatSum(SubSeq(seq, 1, Len(seq) - 1)), seq[Len(seq)])

\* C8: the overall standings hold exactly the teams with at least one category
\* of judges_count > 0, each once; a listed team's entry is the mean of its
\* percentages over those categories and the number of those categories.
C8_OverallStandings ==
    \A s \in Computed :
       LET team_scores == board[s].team_scores
           standings == board[s].overall_scores
           all_categories == AllCategories(config[s])
       IN  /\ Teams(standings)
                = {team \in Range(config[s].teams) :
                     \E category \in Range(all_categories) :
                        Stat(team_scores, team, category).judges_count > 0}
           /\ Len(standings) = Cardinality(Teams(standings))
           /\ \A i \in 1..Len(standings) :
                LET percentages == JudgedPercentages(team_scores, standings[i][1],
                                                     all_categories, 1)
                IN  /\ standings[i][3] = Len(percentages)
                    /\ standings[i][2] = FDivInt(FloatSum(percentages), Len(percentages))

C8_Witness ==
    \E s \in Computed :
       /\ Teams(board[s].overall_scores) # {}
       /\ Teams(board[s].overall_scores) # Range(config[s].teams)
       /\ \E i \in 1..Len(board[s].overall_scores) :
            /\ board[s].overall_scores[i][3] = 2
            /\ board[s].overall_scores[i][2] # Zero

\* the sessions whose run called calculate_all_team_scores on a non-empty store
Called == {s \in Sessions : pc[s] = "leaderboard" /\ scores_data[s] # << >>}

\* C9: for a category whose criteria max_score values sum to 0 (also a
\* category without criteria) every scored (team, category) stat has
\* percentage 0, and calculate_all_team_scores raises nothing.
C9_ZeroMaxGivesZeroPercentage ==
    \A s \in Called :
       /\ board[s].exc = NoExc
       /\ board[s].shown
       /\ \A team \in Range(config[s].teams), category \in Range(AllCategories(config[s])) :
            CategoryMax(config[s], category) = 0
              => Stat(board[s].team_scores, team, category).percentage = Zero

C9_Witness ==
    \E s \in Called :
       /\ board[s].shown
       /\ \E team \in Range(config[s].teams), category \in Range(AllCategories(config[s])) :
            /\ CategoryMax(config[s], category) = 0
            /\ Stat(board[s].team_scores, team, category).judges_count > 0
            /\ \E i \in 1..Len(config[s].categories) :
                 /\ config[s].categories[i].name = category
                 /\ config[s].categories[i].criteria # << >>
       /\ \E team \in Range(config[s].teams), i \in 1..Len(config[s].categories) :
            /\ config[s].categories[i].criteria = << >>
            /\ Stat(board[s].team_scores, team, config[s].categories[i].name).judges_count > 0

\* a store without the submissions of unconfigured teams and without the
\* unconfigured categories of the other submissions
RECURSIVE KnownCategories(_, _, _)
KnownCategories(scores, cfg, i) ==
    IF i = 0 THEN << >>
    ELSE LET before == KnownCategories(scores, cfg, i - 1)
         IN  IF scores[i].k \in Range(AllCategories(cfg))
             THEN Append(before, scores[i])
             ELSE before

RECURSIVE KnownOnly(_, _, _)
KnownOnly(store, cfg, i) ==
    IF i = 0 THEN << >>
    ELSE LET before == KnownOnly(store, cfg, i - 1)
             data == store[i].v
         IN  IF data.team \in Range(cfg.teams)
             THEN Append(before,
                         [k |-> store[i].k,
                          v |-> [data EXCEPT !.scores =
                                   KnownCategories(data.scores, cfg, Len(data.scores))]])
             ELSE before

\* C10: submissions of teams that are not configured, and categories of a
\* submission that are not configured, are skipped silently: the statistics
\* equal those of the store without them, and nothing is raised.
C10_UnknownSkipped ==
    \A s \in Called :
       /\ board[s].exc = NoExc
       /\ board[s].shown
       /\ board[s].team_scores
            = calculate_all_team_scores(
                  KnownOnly(scores_data[s], config[s], Len(scores_data[s])), config[s]).scores
       /\ \A team \in Range(config[s].teams), category \in Range(AllCategories(config[s])) :
            Stat(board[s].team_scores, team, category).judges_count
              = Len(CategorySums(scores_data[s], team, category))

C10_Witness ==
    \E s \in Called :
       /\ board[s].shown
       /\ \E i \in 1..Len(scores_data[s]) :
            scores_data[s][i].v.team \notin Range(config[s].teams)
       /\ \E i \in 1..Len(scores_data[s]) :
            /\ scores_data[s][i].v.team \in Range(config[s].teams)
            /\ \E j \in 1..Len(scores_data[s][i].v.scores) :
                 scores_data[s][i].v.scores[j].k \notin Range(AllCategories(config[s]))

FirstOfTeam(store) ==
    {i \in 1..Len(store) : \A j \in 1..(i - 1) : store[j].v.team # store[i].v.team}

FirstOfJudge(store) ==
    {i \in 1..Len(store) : \A j \in 1..(i - 1) : store[j].v.judge # store[i].v.judge}

\* C12: on the leaderboard, teams judged is the number of distinct team names
\* in the submissions of the store (configured or not), judges participated
\* is the number of distinct judge names in them, and the number of scoring
\* sessions is the number of entries of the store.
C12_ProgressMetrics ==
    \A s \in Computed :
       LET store == scores_data[s]
           progress == board[s].progress
       IN  /\ progress.judged_teams = Cardinality(FirstOfTeam(store))
           /\ progress.judges_participated = Cardinality(FirstOfJudge(store))
           /\ progress.total_scores = Cardinality(Keys(store))
           /\ progress.total_scores = Len(store)

C12_Witness ==
    \E s \in Computed :
       /\ board[s].progress.total_scores = 3
       /\ board[s].progress.judged_teams = 2
       /\ board[s].progress.judges_participated = 2
       /\ JudgedTeamNames(scores_data[s]) \ Range(config[s].teams) # {}

Hundred == FromInt(100)

\* C13: after any sequence of "Save Scores" actions and configuration
\* reloads, each save made from the sliders of the configuration current at
\* the save (0 <= score <= max_score), every percentage returned by
\* calculate_all_team_scores and every overall-standing average is within
\* 0..100.
C13_PercentagesWithin100 ==
    \A s \in Computed :
       /\ \A team \in Range(config[s].teams), category \in Range(AllCategories(config[s])) :
            LET percentage == Stat(board[s].team_scores, team, category).percentage
            IN  Cmp(Zero, percentage) <= 0 /\ Cmp(percentage, Hundred) <= 0
       /\ \A i \in 1..Len(board[s].overall_scores) :
            LET average == board[s].overall_scores[i][2]
            IN  Cmp(Zero, average) <= 0 /\ Cmp(average, Hundred) <= 0

\* the sessions whose run is about to render a page for a non-empty team list
Judging == {s \in Sessions : pc[s] = "main" /\ config[s].teams # << >>}

Positions(s) == 0..(Len(config[s].teams) - 1)

====
